---- MODULE Spec2Model ----
(***************************************************************************)
(* Model of xiv-levelling (src/src/main.rs): the party-building loop, the  *)
(* exhaustive search over one job per party member, the ranking store and  *)
(* the interactive presentation loop of main().                            *)
(*                                                                         *)
(* Indices: Rust vectors are 0-based, TLA+ sequences 1-based.  The values  *)
(* held in `combination` and in PartyConfig.index are the program's own    *)
(* 0-based job indices; member positions run over 1..Len(party).           *)
(***************************************************************************)
EXTENDS Integers, Sequences, FiniteSets, TLC

VARIABLES
    pc,              \* position of main(): "build", "search_eval", "search_adv",
                     \*   "present", "done", "rejected", "panic"
    party,           \* Vec<PlayerCharacter>: one class_jobs sequence per member
    character_name,  \* the name typed last, trimmed (sequence of characters)
    combination,     \* the odometer: one 0-based job index per member
    party_configs,   \* BinaryHeap<PartyConfig>, kept in insertion order
    input,           \* the line typed last in the presentation loop, trimmed
    evaluated,       \* history: the combinations the search loop evaluated
    shown,           \* history: the configurations popped and printed
    last_line,       \* history: the line read last in the presentation loop,
                     \*   as typed
    lines_read       \* history: number of lines read in the presentation loop

vars == <<pc, party, character_name, combination, party_configs, input,
          evaluated, shown, last_line, lines_read>>

---------------------------------------------------------------------------
(* Bounds of the model *)

\* most job records a party of the role/level universe holds in total, a
\* member without any counting as one
MaxTotalJobs == 4
\* most job records one character of the enumeration universe carries
MaxEnumJobs == 3

---------------------------------------------------------------------------
(* Program constants *)

TANK == {1, 3, 32, 37}
HEALER == {6, 26, 33}
DPS == {2, 4, 29, 34, 5, 31, 38, 7, 26, 35}

\* `class_job.level < 80`
LevelCap == 80
\* `party.len() < 4` in the party-building loop
MaxParty == 4
\* `party.len() < 2` rejects the run
MinParty == 2
\* PartyConfig.index is [usize; 4]
IndexSlots == 4

ClassJob(id, lv) == [class_id |-> id, level |-> lv]

---------------------------------------------------------------------------
(* Helpers *)

RECURSIVE SumSeq(_)
SumSeq(s) == IF s = <<>> THEN 0 ELSE Head(s) + SumSeq(Tail(s))

RECURSIVE ProdSeq(_)
ProdSeq(s) == IF s = <<>> THEN 1 ELSE Head(s) * ProdSeq(Tail(s))

\* i16::abs
Abs(x) == IF x < 0 THEN -x ELSE x

Whitespace == {" ", "\n", "\t"}

\* str::trim: strips leading and trailing whitespace
RECURSIVE TrimStart(_)
TrimStart(s) ==
    IF s # <<>> /\ Head(s) \in Whitespace THEN TrimStart(Tail(s)) ELSE s

RECURSIVE TrimEnd(_)
TrimEnd(s) ==
    IF s # <<>> /\ s[Len(s)] \in Whitespace
    THEN TrimEnd(SubSeq(s, 1, Len(s) - 1))
    ELSE s

Trim(s) == TrimEnd(TrimStart(s))

\* the job member i has chosen under combination c
ChosenJob(p, c, i) == p[i][c[i] + 1]

\* the levels of the chosen jobs, by member
ChosenLevels(p, c) == [i \in 1..Len(c) |-> ChosenJob(p, c, i).level]

\* all-zero combination for a party
Zeros(p) == [i \in 1..Len(p) |-> 0]

---------------------------------------------------------------------------
(* Party building, main.rs lines 116-163 *)

\* Vec::retain of line 141
InRoleSets(job) ==
    job.class_id \in TANK \/ job.class_id \in HEALER \/ job.class_id \in DPS

\* variant: the filter left out
RetainAll(raw) == raw

Retain(raw) == SelectSeq(raw, InRoleSets)

\* variant: `party.len() <= 4`
BuildContinuesOffByOne(name, p) == name # <<>> /\ Len(p) <= MaxParty

\* `while !character_name.is_empty() && party.len() < 4`
BuildContinues(name, p) == name # <<>> /\ Len(p) < MaxParty

\* What follows one pass of the loop body: the loop test, then the size check
\* of line 152 and the all-zero combination of lines 160-163.
AfterBuildPass(name, p) ==
    /\ character_name' = name
    /\ party' = p
    /\ IF BuildContinues(name, p)
       THEN pc' = "build" /\ combination' = combination
       ELSE IF Len(p) < MinParty
            THEN pc' = "rejected" /\ combination' = combination
            ELSE pc' = "search_eval" /\ combination' = Zeros(p)
    /\ UNCHANGED <<party_configs, input, evaluated, shown, last_line, lines_read>>

\* lines typed at the name prompt
NameLines == {<<"\n">>, <<" ", "\n">>, <<"A", "\n">>, <<" ", "A", " ", "\n">>}

\* the user presses enter: the trimmed name is empty
StopEntering ==
    /\ pc = "build"
    /\ \E line \in NameLines :
        /\ Trim(line) = <<>>
        /\ AfterBuildPass(Trim(line), party)

\* pagination.results == 0
CharacterNotFound ==
    /\ pc = "build"
    /\ \E line \in NameLines :
        /\ Trim(line) # <<>>
        /\ AfterBuildPass(Trim(line), party)

\* pagination.results > 1
MultipleFound ==
    /\ pc = "build"
    /\ \E line \in NameLines :
        /\ Trim(line) # <<>>
        /\ AfterBuildPass(Trim(line), party)

\* pagination.results == 1: the character's class_jobs are fetched, filtered
\* and pushed
AddCharacter(raw) ==
    /\ pc = "build"
    /\ \E line \in NameLines :
        /\ Trim(line) # <<>>
        /\ AfterBuildPass(Trim(line), Append(party, Retain(raw)))

---------------------------------------------------------------------------
(* Validation, main.rs lines 166-187 *)

\* `if TANK.contains(..) { num_tanks += 1 }`
NumTanks(p, c) ==
    Cardinality({i \in 1..Len(c) : ChosenJob(p, c, i).class_id \in TANK})

\* `else if HEALER.contains(..) { num_healers += 1 }`
NumHealers(p, c) ==
    Cardinality({i \in 1..Len(c) :
        /\ ChosenJob(p, c, i).class_id \notin TANK
        /\ ChosenJob(p, c, i).class_id \in HEALER})

\* all_unlocked stays true unless some level is 0
AllUnlocked(p, c) == \A i \in 1..Len(c) : ChosenJob(p, c, i).level # 0

\* variant: the cap itself counted as below the cap (`level <= 80`)
AllMaxOff(p, c) ==
    \A i \in 1..Len(c) :
        ChosenJob(p, c, i).level = 0 \/ ChosenJob(p, c, i).level > LevelCap

\* all_max stays true unless some level is neither 0 nor >= 80
\* (`if level == 0 {..} else if level < 80 { all_max = false }`)
AllMax(p, c) ==
    \A i \in 1..Len(c) :
        ChosenJob(p, c, i).level = 0 \/ ChosenJob(p, c, i).level >= LevelCap

\* variant: the healer count left out of the test
IsValidNoHealerCheck(p, c) ==
    NumTanks(p, c) = 1 /\ AllUnlocked(p, c) /\ ~AllMax(p, c)

\* `num_tanks == 1 && num_healers == 1 && all_unlocked && !all_max`
IsValid(p, c) ==
    /\ NumTanks(p, c) = 1
    /\ NumHealers(p, c) = 1
    /\ AllUnlocked(p, c)
    /\ ~AllMax(p, c)

---------------------------------------------------------------------------
(* Scoring, main.rs lines 188-212 *)

\* variant: each unordered pair counted once (`j > i`)
VarianceHalf(p, c) ==
    LET lv == ChosenLevels(p, c)
        n == Len(c)
    IN SumSeq([i \in 1..n |->
           SumSeq([j \in 1..n |-> IF i < j THEN Abs(lv[i] - lv[j]) ELSE 0])])

\* `var += (job1.level as i16 - job2.level as i16).abs() as u32` over i != j.
\* Levels are u8, so the difference lies in -255..255 and fits i16; at most
\* 12 terms of at most 255 fit u32.
Variance(p, c) ==
    LET lv == ChosenLevels(p, c)
        n == Len(c)
    IN SumSeq([i \in 1..n |->
           SumSeq([j \in 1..n |-> IF i # j THEN Abs(lv[i] - lv[j]) ELSE 0])])

\* variant: divided by the capacity of the index array
AverageOverSlots(p, c) == SumSeq(ChosenLevels(p, c)) \div IndexSlots

\* `avg += job1.level as u32` ... `avg /= combination.len() as u32`
Average(p, c) == SumSeq(ChosenLevels(p, c)) \div Len(c)

\* `index = [0, 0, 0, 0]; index[i] = combination[i]`
IndexOf(c) == [k \in 1..IndexSlots |-> IF k <= Len(c) THEN c[k] ELSE 0]

Score(p, c) ==
    [index |-> IndexOf(c), var |-> Variance(p, c), avg |-> Average(p, c)]

---------------------------------------------------------------------------
(* Search loop, main.rs lines 165-235 *)

\* `party[i].class_jobs[combination[i]]` panics when the index is out of range
IndexInRange(p, c) == \A i \in 1..Len(c) : c[i] < Len(p[i])

\* lines 166-213: validate the current combination and push it when valid
Evaluate ==
    /\ pc = "search_eval"
    /\ IF IndexInRange(party, combination)
       THEN /\ evaluated' = Append(evaluated, combination)
            /\ party_configs' =
                 IF IsValid(party, combination)
                 THEN Append(party_configs, Score(party, combination))
                 ELSE party_configs
            /\ pc' = "search_adv"
       ELSE /\ pc' = "panic"
            /\ UNCHANGED <<evaluated, party_configs>>
    /\ UNCHANGED <<party, character_name, combination, input, shown, last_line,
                   lines_read>>

\* variant: the loop without its `break`
RECURSIVE AdvanceNoBreakFrom(_, _, _)
AdvanceNoBreakFrom(p, c, i) ==
    IF i = 0 THEN c
    ELSE AdvanceNoBreakFrom(p,
             [c EXCEPT ![i] = IF c[i] + 1 >= Len(p[i]) THEN 0 ELSE c[i] + 1],
             i - 1)

AdvanceNoBreak(p, c) == AdvanceNoBreakFrom(p, c, Len(c))

\* variant: the loop without `.rev()`, the first digit fastest
RECURSIVE AdvanceForwardFrom(_, _, _)
AdvanceForwardFrom(p, c, i) ==
    IF i > Len(c) THEN c
    ELSE IF c[i] + 1 >= Len(p[i])
         THEN AdvanceForwardFrom(p, [c EXCEPT ![i] = 0], i + 1)
         ELSE [c EXCEPT ![i] = c[i] + 1]

AdvanceForward(p, c) == AdvanceForwardFrom(p, c, 1)

\* `for i in (0..combination.len()).rev()`: increment digit i; on overflow
\* reset it and go on with the digit to its left, else stop
RECURSIVE AdvanceFrom(_, _, _)
AdvanceFrom(p, c, i) ==
    IF i = 0 THEN c
    ELSE IF c[i] + 1 >= Len(p[i])
         THEN AdvanceFrom(p, [c EXCEPT ![i] = 0], i - 1)
         ELSE [c EXCEPT ![i] = c[i] + 1]

Advance(p, c) == AdvanceFrom(p, c, Len(c))

\* variant: only the last digit tested
BackToStartLastDigit(c) == ~(c[Len(c)] > 0)

\* variant: only the first digit tested
BackToStartFirstDigit(c) == ~(c[1] > 0)

\* lines 224-230
BackToStart(c) == \A i \in 1..Len(c) : ~(c[i] > 0)

\* lines 215-235: advance the odometer, leave the loop when it is all-zero
AdvanceCombination ==
    /\ pc = "search_adv"
    /\ combination' = Advance(party, combination)
    /\ pc' = IF BackToStart(combination') THEN "present" ELSE "search_eval"
    /\ UNCHANGED <<party, character_name, party_configs, input, evaluated, shown,
                   last_line, lines_read>>

---------------------------------------------------------------------------
(* Ranking store and presentation, main.rs lines 84-94 and 237-251 *)

\* u32::cmp
CmpU32(a, b) == IF a < b THEN "Less" ELSE IF a > b THEN "Greater" ELSE "Equal"

\* variant: the comparison not reversed (`self.var.cmp(&other.var)`)
CmpNatural(a, b) == CmpU32(a.var, b.var)

\* Ord for PartyConfig: `other.var.cmp(&self.var)`
Cmp(a, b) == CmpU32(b.var, a.var)

\* BinaryHeap::pop returns a greatest element under Ord; which one among
\* equal elements is not fixed by the ordering
IsGreatest(h, k) == \A j \in 1..Len(h) : Cmp(h[j], h[k]) # "Greater"

RemoveAt(h, k) == SubSeq(h, 1, k - 1) \o SubSeq(h, k + 1, Len(h))

\* lines typed at the presentation prompt
InputLines == {<<"\n">>, <<"q", "\n">>, <<" ", "q", "\n">>, <<"x", "\n">>}

\* variant: the quit token not tested
PresentContinuesIgnoresQuit == ~(party_configs = <<>>)

\* variant: the emptiness of the store not tested
PresentContinuesIgnoresEmpty == ~(input = <<"q">>)

\* `while !(input.eq("q") || party_configs.is_empty())`
PresentContinues == ~(input = <<"q">> \/ party_configs = <<>>)

\* lines 239-250: `if let Some(party_config) = party_configs.pop()` prints the
\* configuration popped, if any; then a line is read and trimmed
PresentPass ==
    /\ IF party_configs = <<>>
       THEN UNCHANGED <<shown, party_configs>>
       ELSE \E k \in 1..Len(party_configs) :
               /\ IsGreatest(party_configs, k)
               /\ shown' = Append(shown, party_configs[k])
               /\ party_configs' = RemoveAt(party_configs, k)
    /\ \E line \in InputLines :
        /\ input' = Trim(line)
        /\ last_line' = line
    /\ lines_read' = lines_read + 1
    /\ UNCHANGED <<party, character_name, combination, evaluated>>

\* variant: the presentation pass placed inside the search loop
PresentInsideSearch ==
    /\ pc \in {"search_adv", "present"}
    /\ PresentContinues
    /\ PresentPass
    /\ pc' = pc

\* one pass of the presentation loop
Present ==
    /\ pc = "present"
    /\ PresentContinues
    /\ PresentPass
    /\ pc' = pc

\* the loop test fails and main returns
Finish ==
    /\ pc = "present"
    /\ ~PresentContinues
    /\ pc' = "done"
    /\ UNCHANGED <<party, character_name, combination, party_configs, input,
                   evaluated, shown, last_line, lines_read>>

---------------------------------------------------------------------------
(* Inputs: the characters the lookup can return *)

RECURSIVE SeqsUpTo(_, _)
SeqsUpTo(S, n) ==
    IF n = 0 THEN {<<>>}
    ELSE LET shorter == SeqsUpTo(S, n - 1)
         IN shorter \cup {Append(s, x) : s \in shorter, x \in S}

\* job records of the role/level universe, before the filter of line 141:
\* tanks below and at the cap, healers locked, below and above the cap (26 is
\* in HEALER and in DPS), a DPS, and class 8, which is in no role set
JobRecords ==
    { ClassJob(1, 79), ClassJob(3, 80), ClassJob(6, 0), ClassJob(33, 78),
      ClassJob(26, 255), ClassJob(2, 30), ClassJob(8, 50) }

NoClassTwice(jobs) ==
    \A i, j \in 1..Len(jobs) : jobs[i].class_id = jobs[j].class_id => i = j

\* characters of the role/level universe: fewer than MaxTotalJobs records, no
\* class twice
Lodestone ==
    {jobs \in SeqsUpTo(JobRecords, MaxTotalJobs - 1) : NoClassTwice(jobs)}

Load(jobs) == IF jobs = <<>> THEN 1 ELSE Len(jobs)

TotalJobs(p) == SumSeq([i \in 1..Len(p) |-> Load(p[i])])

\* characters of the enumeration universe: k jobs of one class (a tank or a
\* healer class) at levels that make every tank/healer level difference
\* distinct
EnumClasses == {1, 6}

EnumLevel(id, i) == IF id \in TANK THEN i * (MaxEnumJobs + 1) ELSE i

EnumLodestone ==
    {[i \in 1..k |-> ClassJob(id, EnumLevel(id, i))] :
        k \in 0..MaxEnumJobs, id \in EnumClasses}

---------------------------------------------------------------------------
(* Specifications *)

Init ==
    /\ pc = "build"
    /\ party = <<>>
    /\ character_name = <<" ">>
    /\ combination = <<>>
    /\ party_configs = <<>>
    /\ input = <<>>
    /\ evaluated = <<>>
    /\ shown = <<>>
    /\ last_line = <<>>
    /\ lines_read = 0

Next ==
    \/ StopEntering
    \/ CharacterNotFound
    \/ MultipleFound
    \/ /\ pc = "build"
       /\ \E raw \in Lodestone :
            /\ TotalJobs(party) + Load(Retain(raw)) <= MaxTotalJobs
            /\ AddCharacter(raw)
    \/ Evaluate
    \/ AdvanceCombination
    \/ Present
    \/ Finish

Spec == Init /\ [][Next]_vars

NextEnum ==
    \/ StopEntering
    \/ CharacterNotFound
    \/ MultipleFound
    \/ /\ pc = "build"
       /\ \E raw \in EnumLodestone : AddCharacter(raw)
    \/ Evaluate
    \/ AdvanceCombination
    \/ Present
    \/ Finish

SpecEnum == Init /\ [][NextEnum]_vars

\* main is sequential: once in the search loop it keeps executing it
SpecEnumFair ==
    SpecEnum /\ WF_vars(Evaluate) /\ WF_vars(AdvanceCombination)

---------------------------------------------------------------------------
(* Properties *)

JobCounts(p) == [i \in 1..Len(p) |-> Len(p[i])]

NoEmptyMember(p) == \A i \in 1..Len(p) : Len(p[i]) > 0

SearchStarted == pc \in {"search_eval", "search_adv", "present", "done", "panic"}

SearchDone == pc \in {"present", "done"}

\* every configuration that is or was in the ranking store
Configs == {party_configs[k] : k \in 1..Len(party_configs)}
               \cup {shown[k] : k \in 1..Len(shown)}

\* the job record configuration cfg chooses for member i
Chosen(cfg, i) == party[i][cfg.index[i] + 1]

Members == 1..Len(party)

\* C1: for a party whose members all have at least one job record, the
\* search loop evaluates exactly the product of the members' job counts many
\* assignments, and the all-zero assignment is evaluated exactly once, first.
C1_EvaluatesProduct ==
    /\ evaluated # <<>> =>
        /\ evaluated[1] = Zeros(party)
        /\ \A k \in 2..Len(evaluated) : evaluated[k] # Zeros(party)
    /\ (SearchDone /\ NoEmptyMember(party)) =>
        Len(evaluated) = ProdSeq(JobCounts(party))

C1_Witness ==
    /\ SearchDone
    /\ Len(party) = 4
    /\ NoEmptyMember(party)
    /\ Len(evaluated) > 16

\* value of assignment c as a mixed-radix number, first member most significant
RECURSIVE RankUpTo(_, _, _)
RankUpTo(p, c, i) ==
    IF i = 0 THEN 0 ELSE RankUpTo(p, c, i - 1) * Len(p[i]) + c[i]

Rank(p, c) == RankUpTo(p, c, Len(c))

\* a comes before b lexicographically
LexLess(a, b) ==
    \E i \in 1..Len(a) :
        /\ a[i] < b[i]
        /\ \A j \in 1..(i - 1) : a[j] = b[j]

\* C2: the assignments are evaluated in mixed-radix counting order, the last
\* member's index varying fastest: the k-th assignment evaluated is the one of
\* rank k-1, every digit within its member's job count, so the sequence is
\* strictly increasing lexicographically with nothing skipped or repeated.
C2_MixedRadixOrder ==
    /\ \A k \in 1..Len(evaluated) :
        /\ Len(evaluated[k]) = Len(party)
        /\ \A i \in Members : evaluated[k][i] < Len(party[i])
        /\ Rank(party, evaluated[k]) = k - 1
    /\ \A k \in 1..(Len(evaluated) - 1) : LexLess(evaluated[k], evaluated[k + 1])

\* a carry through two digits has happened
C2_Witness ==
    /\ Len(party) = 3
    /\ \E k \in 1..(Len(evaluated) - 1) :
        /\ evaluated[k][2] > 0
        /\ evaluated[k][3] > 0
        /\ evaluated[k + 1] = <<evaluated[k][1] + 1, 0, 0>>

\* C3: when some member has no job record, the search yields no assignment,
\* stores nothing, and ends without failing.
C3_EmptyMemberYieldsNothing ==
    (SearchStarted /\ ~NoEmptyMember(party)) =>
        /\ pc # "panic"
        /\ evaluated = <<>>
        /\ party_configs = <<>>

\* C4: every configuration ever in the ranking store has exactly one chosen
\* job whose class is in TANK and exactly one whose class is in HEALER.
C4_OneTankOneHealer ==
    \A cfg \in Configs :
        /\ Cardinality({i \in Members : Chosen(cfg, i).class_id \in TANK}) = 1
        /\ Cardinality({i \in Members : Chosen(cfg, i).class_id \in HEALER}) = 1

\* a configuration is stored although an assignment with two tanks was evaluated
C4_Witness ==
    /\ party_configs # <<>>
    /\ Len(party) >= 3
    /\ \E k \in 1..Len(evaluated) :
        Cardinality({i \in Members :
            party[i][evaluated[k][i] + 1].class_id \in TANK}) = 2

\* C5: no configuration ever in the ranking store chooses a job of level 0,
\* and none has every chosen job at or above the level cap.
C5_UnlockedAndNotAllMax ==
    \A cfg \in Configs :
        /\ \A i \in Members : Chosen(cfg, i).level # 0
        /\ ~(\A i \in Members : Chosen(cfg, i).level >= LevelCap)

\* a configuration with a job above the cap is stored, and assignments that
\* are all at or above the cap, or hold a locked job, were evaluated
C5_Witness ==
    /\ \E cfg \in Configs : \E i \in Members : Chosen(cfg, i).level > LevelCap
    /\ \E k \in 1..Len(evaluated) :
        \A i \in Members : party[i][evaluated[k][i] + 1].level >= LevelCap
    /\ \E k \in 1..Len(evaluated) :
        \E i \in Members : party[i][evaluated[k][i] + 1].level = 0

\* the cartesian product of the members' job indices
RECURSIVE AssignmentsUpTo(_, _)
AssignmentsUpTo(p, n) ==
    IF n = 0 THEN {<<>>}
    ELSE {Append(a, k) : a \in AssignmentsUpTo(p, n - 1), k \in 0..(Len(p[n]) - 1)}

AllAssignments(p) == AssignmentsUpTo(p, Len(p))

\* validation rules 1, 2, 4 and 5 of the specification
RulesHold(p, a) ==
    /\ Cardinality({i \in 1..Len(p) : p[i][a[i] + 1].class_id \in TANK}) = 1
    /\ Cardinality({i \in 1..Len(p) : p[i][a[i] + 1].class_id \in HEALER}) = 1
    /\ \A i \in 1..Len(p) : p[i][a[i] + 1].level > 0
    /\ \E i \in 1..Len(p) : p[i][a[i] + 1].level < LevelCap

\* C6: when the search ends, every assignment of the cartesian product that
\* satisfies rules 1, 2, 4 and 5 has exactly one configuration in the store.
C6_StoreHoldsEachValidOnce ==
    (pc = "present" /\ shown = <<>>) =>
        \A a \in AllAssignments(party) :
            RulesHold(party, a) =>
                Cardinality({k \in 1..Len(party_configs) :
                    \A i \in Members : party_configs[k].index[i] = a[i]}) = 1

C6_Witness ==
    /\ pc = "present"
    /\ shown = <<>>
    /\ Len(party_configs) >= 2
    /\ Len(party_configs) < Len(evaluated)

\* sum of |x - y| over the unordered pairs of entries of s
RECURSIVE Spread(_)
Spread(s) ==
    IF s = <<>> THEN 0
    ELSE SumSeq([j \in 1..(Len(s) - 1) |-> Abs(Head(s) - Tail(s)[j])])
             + Spread(Tail(s))

LevelsOf(cfg) == [i \in Members |-> Chosen(cfg, i).level]

\* C7: the variance of every stored configuration is twice the sum over the
\* unordered pairs of members of the absolute level difference, hence even.
C7_VarianceTwicePairs ==
    \A cfg \in Configs :
        /\ cfg.var = 2 * Spread(LevelsOf(cfg))
        /\ cfg.var % 2 = 0

C7_Witness ==
    /\ Len(party) = 4
    /\ \E cfg \in Configs : cfg.var > 0

\* C8: the average level of every stored configuration is the floor of the
\* sum of the chosen levels divided by the party size.
C8_AverageByPartySize ==
    \A cfg \in Configs :
        /\ cfg.avg * Len(party) <= SumSeq(LevelsOf(cfg))
        /\ SumSeq(LevelsOf(cfg)) < (cfg.avg + 1) * Len(party)

\* a party of three whose level sum is no multiple of three
C8_Witness ==
    /\ Len(party) = 3
    /\ \E cfg \in Configs : SumSeq(LevelsOf(cfg)) % 3 # 0

\* C9: the configurations are shown in non-decreasing order of variance, and
\* each shown one has a variance no greater than any still in the store.
C9_PopsAscendingVariance ==
    \A k \in 1..Len(shown) :
        /\ \A j \in (k + 1)..Len(shown) : shown[k].var <= shown[j].var
        /\ \A m \in 1..Len(party_configs) : shown[k].var <= party_configs[m].var

\* two configurations were shown in the reverse of their insertion order
C9_Witness ==
    /\ Len(shown) >= 2
    /\ shown[1].var < shown[2].var
    /\ LexLess(shown[2].index, shown[1].index)

\* the role sets that hold class id
RolesOf(id) ==
    {r \in {"Tank", "Healer", "DPS"} :
        \/ r = "Tank" /\ id \in TANK
        \/ r = "Healer" /\ id \in HEALER
        \/ r = "DPS" /\ id \in DPS}

\* C10: the three role sets are pairwise disjoint, so the role of every job
\* record of the party is unambiguous.
C10_RoleSetsDisjoint ==
    /\ \A i \in Members : \A k \in 1..Len(party[i]) :
            Cardinality(RolesOf(party[i][k].class_id)) <= 1
    /\ TANK \cap HEALER = {}
    /\ TANK \cap DPS = {}
    /\ HEALER \cap DPS = {}

\* the line, as typed, is the token q with nothing but whitespace around it
IsQuitLine(line) ==
    \E i \in 1..Len(line) :
        /\ line[i] = "q"
        /\ \A j \in 1..Len(line) : j # i => line[j] \in {" ", "\t", "\n"}

QuitEntered == lines_read > 0 /\ IsQuitLine(last_line)

\* the configurations in the store followed by those shown
StoredAndShown == party_configs \o shown

\* some configuration of the store has the least variance in it
LeastVariance(h) ==
    CHOOSE v \in {h[k].var : k \in 1..Len(h)} :
        \A k \in 1..Len(h) : v <= h[k].var

C11_Inv ==
    /\ lines_read = Len(shown)
    /\ pc \in {"present", "done"} =>
        /\ \A a \in AllAssignments(party) :
            RulesHold(party, a) =>
                Cardinality({k \in 1..Len(StoredAndShown) :
                    \A i \in Members : StoredAndShown[k].index[i] = a[i]}) = 1
        /\ Len(StoredAndShown) =
               Cardinality({a \in AllAssignments(party) : RulesHold(party, a)})
    /\ pc = "done" => (QuitEntered \/ party_configs = <<>>)

C11_Step ==
    pc = "present" =>
        /\ QuitEntered =>
            /\ shown' = shown
            /\ party_configs' = party_configs
            /\ lines_read' = lines_read
        /\ (~QuitEntered /\ party_configs # <<>>) =>
            /\ Len(shown') = Len(shown) + 1
            /\ SubSeq(shown', 1, Len(shown)) = shown
            /\ shown'[Len(shown')].var = LeastVariance(party_configs)
            /\ Len(party_configs') = Len(party_configs) - 1
            /\ lines_read' = lines_read + 1

\* C11: one line is read after each configuration presented; once a line that
\* trims to q is read nothing more is popped or presented and the store is
\* left as it is; after any other line the next-best configuration is
\* presented; without q every stored configuration is presented exactly once
\* and the loop ends when the store is empty.
C11_PresentationLoop == []C11_Inv /\ [][C11_Step]_vars

\* the loop was left on a padded q with configurations shown and others left
C11_Witness ==
    /\ pc = "done"
    /\ last_line = <<" ", "q", "\n">>
    /\ Len(shown) >= 2
    /\ party_configs # <<>>

\* the search has ended and found no valid configuration
NothingFound == SearchDone /\ party_configs = <<>> /\ shown = <<>>

C12_Inv ==
    NothingFound =>
        /\ lines_read = 0
        /\ last_line = <<>>
        /\ input = <<>>
        /\ pc = "present" => ENABLED Finish

C12_Step ==
    (pc = "present" /\ NothingFound) =>
        /\ pc' = "done"
        /\ UNCHANGED <<party_configs, shown, input, last_line, lines_read>>

\* C12: when the store is empty at the end of the search, the presentation
\* loop presents nothing, reads no line, and main returns normally.
C12_EmptyStorePresentsNothing == []C12_Inv /\ [][C12_Step]_vars

\* main has returned after a search of several assignments that stored nothing
C12_Witness ==
    /\ pc = "done"
    /\ NothingFound
    /\ lines_read = 0
    /\ Len(evaluated) >= 2

Presenting == pc \in {"present", "done"}

C13_Inv == ~Presenting => (shown = <<>> /\ lines_read = 0)

C13_Step ==
    /\ Len(party_configs') > Len(party_configs) =>
        (pc = "search_eval" /\ shown = <<>> /\ shown' = <<>>)
    /\ shown' # shown => (pc = "present" /\ pc' = "present")
    /\ Presenting =>
        /\ Presenting'
        /\ evaluated' = evaluated
        /\ combination' = combination
        /\ Len(party_configs') <= Len(party_configs)

\* C13: the search and the presentation never interleave: every insertion
\* into the store comes before the first pop, nothing is inserted or
\* enumerated once the presentation has started, and nothing is popped
\* while the enumeration runs.
C13_PhasesDoNotInterleave == []C13_Inv /\ [][C13_Step]_vars

\* the presentation runs on a store filled by a search of several assignments
C13_Witness ==
    /\ pc = "present"
    /\ shown # <<>>
    /\ party_configs # <<>>
    /\ Len(evaluated) >= 3

\* C14: the party never has more than 4 members, the search starts only with
\* 2 to 4 members, and a run that collected fewer than 2 is rejected with
\* nothing enumerated, stored or presented.
C14_PartySizeGuard ==
    /\ Len(party) <= 4
    /\ (SearchStarted \/ Presenting) => Len(party) \in 2..4
    /\ pc = "rejected" => Len(party) < 2
    /\ Len(party) < 2 =>
        /\ pc \in {"build", "rejected"}
        /\ combination = <<>>
        /\ evaluated = <<>>
        /\ party_configs = <<>>
        /\ shown = <<>>
        /\ lines_read = 0

\* a run with a single character was rejected
C14_Witness == pc = "rejected" /\ Len(party) = 1

C15_Inv ==
    /\ NoEmptyMember(party) => pc # "panic"
    /\ (pc = "search_eval" /\ evaluated # <<>>) => combination # Zeros(party)
    /\ SearchDone => combination = Zeros(party)
    /\ (SearchDone /\ \A i \in Members : Len(party[i]) = 1) => Len(evaluated) = 1

C15_Step ==
    pc = "search_adv" => (pc' = "present" <=> combination' = Zeros(party))

\* C15: for a party whose members all have at least one job record the
\* search ends, and it ends at the first advance that brings the assignment
\* back to all-zero; with one job record per member it ends after one
\* evaluation.
C15_SearchTerminates ==
    /\ []C15_Inv
    /\ [][C15_Step]_vars
    /\ (pc = "search_eval" /\ NoEmptyMember(party)) ~> SearchDone

\* a search of many assignments has ended
C15_Witness ==
    /\ SearchDone
    /\ Len(party) >= 3
    /\ Len(evaluated) >= 12
    /\ combination = Zeros(party)

\* C16: every index the search or the presentation uses for member i is less
\* than the number of member i's job records, whatever the party, and the
\* slots of a stored index array beyond the party size are 0.
C16_Inv ==
    \A cfg \in Configs :
        /\ \A i \in Members : cfg.index[i] < Len(party[i])
        /\ \A k \in (Len(party) + 1)..4 : cfg.index[k] = 0

\* a step from "search_eval" is the validator indexing with `combination`
C16_Step ==
    pc = "search_eval" =>
        /\ \A i \in Members : combination[i] < Len(party[i])
        /\ pc' # "panic"

C16_IndicesInRange == []C16_Inv /\ [][C16_Step]_vars

\* C17: every stored configuration of a party of n members has exactly one
\* choice in TANK, exactly one in HEALER, and exactly n-2 choices that are in
\* DPS and in neither TANK nor HEALER.
C17_OneTankOneHealerRestDps ==
    \A cfg \in Configs :
        /\ Cardinality({i \in Members : Chosen(cfg, i).class_id \in TANK}) = 1
        /\ Cardinality({i \in Members : Chosen(cfg, i).class_id \in HEALER}) = 1
        /\ Cardinality({i \in Members :
               /\ Chosen(cfg, i).class_id \in DPS
               /\ Chosen(cfg, i).class_id \notin TANK
               /\ Chosen(cfg, i).class_id \notin HEALER}) = Len(party) - 2

\* a stored configuration of four members whose healer is class 26, which is
\* in DPS too
C17_Witness ==
    /\ Len(party) = 4
    /\ \E cfg \in Configs : \E i \in Members : Chosen(cfg, i).class_id = 26

====
